---- MODULE Spec2Model ----
(***************************************************************************)
(* PhraseForge (src/src/main.rs): the word-list pipeline (fetch, build,    *)
(* cache check, load) and the passphrase generator.                        *)
(*                                                                         *)
(* Text is modelled as it is in the program: a line, a token or a          *)
(* passphrase is a sequence of characters (one-character strings), a file  *)
(* is a sequence of lines.  A u32 is its canonical decimal digit sequence  *)
(* (no sign, no leading zero), so that the full 32-bit range is covered.   *)
(***************************************************************************)
EXTENDS Integers, Sequences, FiniteSets, TLC

VARIABLES
    pc,               \* position of main / load_or_generate_word_lists
    force_download,   \* --redownload
    min_frequency,    \* --min-frequency (u32)
    num_passwords,    \* --count
    dict_dir,         \* data_dir/dict: None, or the index file of each part of speech
    archive,          \* data_dir/WNdb-3.0.tar.gz: None, or the dictionary it packs
    corpus,           \* data_dir/en_full.txt: None, or its lines
    out_files,        \* the four derived files, by name: None, or the file's lines
    response,         \* the body of the HTTP response in hand
    build_i,          \* loop index of generate_word_lists
    word_lists,       \* WordLists in memory
    num, adj, noun_n, noun, verb, adv,   \* locals of generate_password
    password,         \* its return value
    printed,          \* lines printed by main's loop
    cached,           \* the value word_lists_exist returned to load_or_generate_word_lists
    done,             \* the steps executed so far, in order
    failure,          \* the fetch-step failures met so far, in order
    fs0,              \* the storage directory as the run found it
    dictionary, master_word_list, word_list,   \* generate_word_list: arguments, result
    list_file, entries                          \* load_word_list: argument, result

vars == << pc, force_download, min_frequency, num_passwords, dict_dir, archive,
           corpus, out_files, response, build_i, word_lists, num, adj, noun_n,
           noun, verb, adv, password, printed, cached, done, failure, fs0, dictionary,
           master_word_list, word_list, list_file, entries >>

\* Option<T>: None is the empty sequence, Some(x) the one-element sequence
None == << >>
Some(x) == << x >>
IsSome(o) == o # << >>
Unwrap(o) == o[1]

-----------------------------------------------------------------------------
(* Characters and tokens *)

\* char::is_whitespace, for the characters of the model
Whitespace == {" ", "\t"}

\* char::is_ascii_alphabetic
AsciiAlphabetic ==
    {"a","b","c","d","e","f","g","h","i","j","k","l","m",
     "n","o","p","q","r","s","t","u","v","w","x","y","z",
     "A","B","C","D","E","F","G","H","I","J","K","L","M",
     "N","O","P","Q","R","S","T","U","V","W","X","Y","Z"}

Digits == {"0","1","2","3","4","5","6","7","8","9"}

DigitVal(c) ==
    CASE c = "0" -> 0 [] c = "1" -> 1 [] c = "2" -> 2 [] c = "3" -> 3
      [] c = "4" -> 4 [] c = "5" -> 5 [] c = "6" -> 6 [] c = "7" -> 7
      [] c = "8" -> 8 [] c = "9" -> 9

DigitChar(d) ==
    CASE d = 0 -> "0" [] d = 1 -> "1" [] d = 2 -> "2" [] d = 3 -> "3"
      [] d = 4 -> "4" [] d = 5 -> "5" [] d = 6 -> "6" [] d = 7 -> "7"
      [] d = 8 -> "8" [] d = 9 -> "9"

\* str::split_whitespace: the maximal runs of non-whitespace characters, in order
RECURSIVE SplitFrom(_, _, _)
SplitFrom(line, i, cur) ==
    IF i > Len(line)
    THEN IF cur = << >> THEN << >> ELSE << cur >>
    ELSE IF line[i] \in Whitespace
         THEN IF cur = << >>
              THEN SplitFrom(line, i + 1, << >>)
              ELSE << cur >> \o SplitFrom(line, i + 1, << >>)
         ELSE SplitFrom(line, i + 1, Append(cur, line[i]))

split_whitespace(line) == SplitFrom(line, 1, << >>)

\* line.split_whitespace().next().unwrap_or("")
first_word(line) ==
    LET parts == split_whitespace(line)
    IN  IF parts = << >> THEN << >> ELSE parts[1]

-----------------------------------------------------------------------------
(* u32 values as canonical digit sequences *)

U32Max == << "4","2","9","4","9","6","7","2","9","5" >>

RECURSIVE StripZeros(_)
StripZeros(ds) ==
    IF Len(ds) > 1 /\ ds[1] = "0" THEN StripZeros(Tail(ds)) ELSE ds

\* a < b for canonical digit sequences
RECURSIVE LexLess(_, _)
LexLess(a, b) ==
    IF a = << >> THEN FALSE
    ELSE IF DigitVal(a[1]) # DigitVal(b[1])
         THEN DigitVal(a[1]) < DigitVal(b[1])
         ELSE LexLess(Tail(a), Tail(b))

U32Less(a, b) ==
    \/ Len(a) < Len(b)
    \/ Len(a) = Len(b) /\ LexLess(a, b)

\* str::parse::<u32>: an optional '+', then one or more decimal digits, the
\* value at most u32::MAX; anything else is an error (.ok() gives None)
parse_u32(tok) ==
    LET ds == IF tok # << >> /\ tok[1] = "+" THEN Tail(tok) ELSE tok
    IN  IF ds = << >> THEN None
        ELSE IF \E i \in 1..Len(ds) : ds[i] \notin Digits THEN None
        ELSE IF U32Less(U32Max, StripZeros(ds)) THEN None
        ELSE Some(StripZeros(ds))

-----------------------------------------------------------------------------
(* load_word_list *)

\* mutant: a line without a frequency gives an entry of frequency 0
parse_entry_default_zero(line) ==
    LET parts == split_whitespace(line)
    IN  IF Len(parts) < 1 THEN None
        ELSE IF Len(parts) < 2
             THEN Some([word |-> parts[1], frequency |-> << "0" >>])
        ELSE IF parse_u32(parts[2]) = None THEN None
        ELSE Some([word |-> parts[1], frequency |-> Unwrap(parse_u32(parts[2]))])

\* the closure given to filter_map: Some(WordEntry) or None
parse_entry(line) ==
    LET parts == split_whitespace(line)
    IN  IF Len(parts) < 1 THEN None
        ELSE IF Len(parts) < 2 THEN None
        ELSE IF parse_u32(parts[2]) = None THEN None
        ELSE Some([word |-> parts[1], frequency |-> Unwrap(parse_u32(parts[2]))])

RECURSIVE load_word_list(_)
load_word_list(lines) ==
    IF lines = << >> THEN << >>
    ELSE LET e == parse_entry(Head(lines))
         IN  IF e = None
             THEN load_word_list(Tail(lines))
             ELSE << Unwrap(e) >> \o load_word_list(Tail(lines))

-----------------------------------------------------------------------------
(* generate_word_list *)

\* mutant: the is_ascii_alphabetic test is left out
dictionary_words_any_start(dictionary_lines) ==
    { first_word(dictionary_lines[i]) : i \in
        { j \in DOMAIN dictionary_lines :
            first_word(dictionary_lines[j]) # << >> } }

\* Step 1: the first words of the dictionary lines that start with an ASCII letter
dictionary_words(dictionary_lines) ==
    { first_word(dictionary_lines[i]) : i \in
        { j \in DOMAIN dictionary_lines :
            /\ first_word(dictionary_lines[j]) # << >>
            /\ first_word(dictionary_lines[j])[1] \in AsciiAlphabetic } }

\* Step 2: whether a line of the master word list is pushed
line_included(line, known) ==
    first_word(line) # << >> /\ first_word(line) \in known

RECURSIVE matching_lines(_, _)
matching_lines(lines, known) ==
    IF lines = << >> THEN << >>
    ELSE IF line_included(Head(lines), known)
         THEN << Head(lines) >> \o matching_lines(Tail(lines), known)
         ELSE matching_lines(Tail(lines), known)

generate_word_list(dictionary_lines, master_lines) ==
    matching_lines(master_lines, dictionary_words(dictionary_lines))

-----------------------------------------------------------------------------
(* generate_password *)

\* rng.random_range(1..999)
RangeLo == 1
RangeHi == 999
random_range == RangeLo .. (RangeHi - 1)

\* mutant: >= for >
above_frequency_or_equal(entry, min) == ~U32Less(entry.frequency, min)

\* entries.iter().filter(|entry| entry.frequency > *min_frequency)
above_frequency(entry, min) == U32Less(min, entry.frequency)

RECURSIVE filtered(_, _)
filtered(word_entries, min) ==
    IF word_entries = << >> THEN << >>
    ELSE IF above_frequency(Head(word_entries), min)
         THEN << Head(word_entries) >> \o filtered(Tail(word_entries), min)
         ELSE filtered(Tail(word_entries), min)

\* the values pick_random_above_frequency can return: the word of any entry of
\* the filtered list, or "" when that list is empty
pick_random_above_frequency(word_entries, min) ==
    LET f == filtered(word_entries, min)
    IN  IF f = << >> THEN { << >> }
        ELSE { f[i].word : i \in DOMAIN f }

\* inflector's to_plural, on the nouns of the model: an uncountable noun is
\* returned as it is, -x takes -es, the others take -s
Uncountable == { << "r","i","c","e" >> }

to_plural(w) ==
    IF w \in Uncountable THEN w
    ELSE IF w[Len(w)] = "x" THEN w \o << "e","s" >>
    ELSE w \o << "s" >>

\* mutant: the test on num is off by one
plural_if_any(n, number) ==
    IF number >= 1 /\ n # << >> THEN to_plural(n) ELSE n

\* lines 187-191
plural_if_many(n, number) ==
    IF number > 1 /\ n # << >> THEN to_plural(n) ELSE n

\* "{}" of a u32
RECURSIVE Decimal(_)
Decimal(n) ==
    IF n < 10 THEN << DigitChar(n) >>
    ELSE Decimal(n \div 10) \o << DigitChar(n % 10) >>

\* mutant: the four-field format, without the number
format_password_words_only(number, a, n, v, d) ==
    a \o << "-" >> \o n \o << "-" >> \o v \o << "-" >> \o d

\* format!("{}-{}-{}-{}-{}", num, adj, noun, verb, adv)
format_password(number, a, n, v, d) ==
    Decimal(number) \o << "-" >> \o a \o << "-" >> \o n \o << "-" >> \o v
        \o << "-" >> \o d

-----------------------------------------------------------------------------
(* The storage directory and the two servers *)

\* word_lists_exist's word_files
exist_files == << "adjectives.txt", "nouns.txt", "verbs.txt", "adverbs.txt" >>

\* generate_word_lists' word_files
word_files ==
    << << "index.adj", "adjectives.txt" >>,
       << "index.noun", "nouns.txt" >>,
       << "index.verb", "verbs.txt" >>,
       << "index.adv", "adverbs.txt" >> >>

IndexNames == { word_files[i][1] : i \in DOMAIN word_files }
OutNames == { word_files[i][2] : i \in DOMAIN word_files }

\* mutant: any() for all()
word_lists_exist_any(files) ==
    \E i \in DOMAIN exist_files : IsSome(files[exist_files[i]])

\* word_files.iter().all(|file| data_dir.join(file).exists())
word_lists_exist(files) ==
    \A i \in DOMAIN exist_files : IsSome(files[exist_files[i]])

\* mutant: && for ||
need_pipeline_and(exist, force) == ~exist /\ force

\* the condition of line 264
need_pipeline(exist, force) == ~exist \/ force

\* the dictionary the WordNet server packs: "dict/index.*"
NewDict ==
    [ n \in IndexNames |->
        CASE n = "index.adj"  -> << << " ", " ", "1", " ", "T", "h", "i", "s", " ", "s", "o", "f", "t", "w", "a", "r", "e" >>,
       << "b", "i", "g", " ", "a", " ", "1" >>,
       << "'", "h", "o", "o", "d", " ", "a", " ", "1" >> >>
          [] n = "index.noun" -> << << "c", "a", "t", " ", "n", " ", "1" >>,
       << "d", "o", "g", " ", "n", " ", "1" >> >>
          [] n = "index.verb" -> << << "r", "u", "n", " ", "v", " ", "1" >> >>
          [] n = "index.adv"  -> << << "f", "a", "s", "t", " ", "r", " ", "1" >>,
       << " ", "c", "a", "t", " ", "r", " ", "1" >> >> ]

\* a dictionary left by an earlier run
OldDict ==
    [ n \in IndexNames |->
        CASE n = "index.adj"  -> << << "b", "i", "g", " ", "a", " ", "1" >> >>
          [] n = "index.noun" -> << << "z", "z", "z", " ", "n", " ", "1" >> >>
          [] n = "index.verb" -> << >>
          [] n = "index.adv"  -> << << "f", "a", "s", "t", " ", "r", " ", "1" >> >> ]

\* the frequency list the second server serves
NewCorpus == << << "c", "a", "t", " ", "5", "0", "0", "0", "0" >>,
       << "d", "o", "g", " ", "5" >>,
       << "z", "z", "z", " ", "9", "9", "9", "9", "9" >>,
       << "b", "i", "g", " ", "2", "0", "0", "0", "0" >>,
       << "r", "u", "n", " ", "3", "0", "0", "0", "0" >>,
       << "f", "a", "s", "t", " ", "4", "0", "0", "0", "0" >> >>

OldCorpus == << << "z", "z", "z", " ", "7" >> >>

\* what a derived file left by an earlier run (or by the user) may hold
OldOutPool == { << >>, << << "o", "l", "d", " ", "7" >> >>, << << "?", "?", "?" >>,
       << "c", "a", "t" >> >> }

Storage == [ dict_dir |-> dict_dir, archive |-> archive, corpus |-> corpus,
             out_files |-> out_files ]

-----------------------------------------------------------------------------
(* load_or_generate_word_lists *)

Panic == pc' = "panicked"

\* the variables no step of the pipeline touches
PureVars == << dictionary, master_word_list, word_list, list_file, entries >>
ArgVars == << force_download, min_frequency, num_passwords, fs0 >>
GenVars == << num, adj, noun_n, noun, verb, adv, password, printed >>

\* line 264
WordListsCheck ==
    /\ pc = "main"
    /\ cached' = word_lists_exist(out_files)
    /\ pc' = IF need_pipeline(word_lists_exist(out_files), force_download)
             THEN "get_wordnet" ELSE "load"
    /\ done' = Append(done, "check")
    /\ UNCHANGED << dict_dir, archive, corpus, out_files, response, build_i,
                    word_lists, failure, ArgVars, GenVars, PureVars >>

\* mutant: the fetcher returns at once when dict/ is there and nothing forces it
GetWordnet_skip_if_present ==
    /\ pc = "get_wordnet"
    /\ IF IsSome(dict_dir) /\ ~force_download
       THEN /\ pc' = "get_corpus"
            /\ UNCHANGED << done, response, failure >>
       ELSE /\ done' = Append(done, "get_wordnet")
            /\ \/ /\ response' = Some(NewDict)
                  /\ pc' = "write_archive"
                  /\ UNCHANGED failure
               \/ /\ Panic
                  /\ failure' = Append(failure, "network")
                  /\ UNCHANGED response
    /\ UNCHANGED << dict_dir, archive, corpus, out_files, build_i, word_lists,
                    cached, ArgVars, GenVars, PureVars >>

\* download_and_extract_wordnet_dictionary, lines 60-62: the blocking GET
GetWordnet ==
    /\ pc = "get_wordnet"
    /\ done' = Append(done, "get_wordnet")
    /\ \/ /\ response' = Some(NewDict)
          /\ pc' = "write_archive"
          /\ UNCHANGED failure
       \/ /\ Panic
          /\ failure' = Append(failure, "network")
          /\ UNCHANGED response
    /\ UNCHANGED << dict_dir, archive, corpus, out_files, build_i, word_lists,
                    cached, ArgVars, GenVars, PureVars >>

\* lines 64-65: fs::write of the archive
WriteArchive ==
    /\ pc = "write_archive"
    /\ done' = Append(done, "write_archive")
    /\ \/ /\ archive' = response
          /\ pc' = "extract"
          /\ UNCHANGED failure
       \/ /\ Panic
          /\ failure' = Append(failure, "disk_write")
          /\ UNCHANGED archive
    /\ UNCHANGED << dict_dir, corpus, out_files, response, build_i, word_lists,
                    cached, ArgVars, GenVars, PureVars >>

\* lines 67-74: tar is spawned and waited for; .status() is Err only when tar
\* could not be run, and the ExitStatus it returns is dropped
ExtractWordnet ==
    /\ pc = "extract"
    /\ done' = Append(done, "extract")
    /\ \/ /\ dict_dir' = archive          \* tar exits 0
          /\ pc' = "remove_archive"
          /\ UNCHANGED failure
       \/ /\ UNCHANGED dict_dir           \* tar runs and exits non-zero
          /\ pc' = "remove_archive"
          /\ failure' = Append(failure, "tar_exit")
       \/ /\ UNCHANGED dict_dir           \* tar cannot be spawned
          /\ Panic
          /\ failure' = Append(failure, "tar_spawn")
    /\ UNCHANGED << archive, corpus, out_files, response, build_i, word_lists,
                    cached, ArgVars, GenVars, PureVars >>

\* line 75
RemoveArchive ==
    /\ pc = "remove_archive"
    /\ done' = Append(done, "remove_archive")
    /\ \/ /\ archive' = None
          /\ pc' = "get_corpus"
          /\ UNCHANGED failure
       \/ /\ Panic
          /\ failure' = Append(failure, "disk_remove")
          /\ UNCHANGED archive
    /\ UNCHANGED << dict_dir, corpus, out_files, response, build_i, word_lists,
                    cached, ArgVars, GenVars, PureVars >>

\* download_master_word_list, lines 79-81
GetCorpus ==
    /\ pc = "get_corpus"
    /\ done' = Append(done, "get_corpus")
    /\ \/ /\ response' = Some(NewCorpus)
          /\ pc' = "write_corpus"
          /\ UNCHANGED failure
       \/ /\ Panic
          /\ failure' = Append(failure, "network")
          /\ UNCHANGED response
    /\ UNCHANGED << dict_dir, archive, corpus, out_files, build_i, word_lists,
                    cached, ArgVars, GenVars, PureVars >>

\* lines 83-85
WriteCorpus ==
    /\ pc = "write_corpus"
    /\ done' = Append(done, "write_corpus")
    /\ \/ /\ corpus' = response
          /\ pc' = "build"
          /\ build_i' = 1
          /\ UNCHANGED failure
       \/ /\ Panic
          /\ failure' = Append(failure, "disk_write")
          /\ UNCHANGED << corpus, build_i >>
    /\ UNCHANGED << dict_dir, archive, out_files, response, word_lists,
                    cached, ArgVars, GenVars, PureVars >>

\* mutant: an output file that exists is skipped
save_word_list_skip_existing(files, name, words) ==
    IF IsSome(files[name]) THEN files ELSE [ files EXCEPT ![name] = Some(words) ]

\* save_word_list: File::create truncates or creates, then one line per word
save_word_list(files, name, words) == [ files EXCEPT ![name] = Some(words) ]

\* generate_word_lists, one turn of the loop of lines 151-156: File::open of a
\* missing index file or corpus panics, and so does a File::create that fails
BuildWordList ==
    /\ pc = "build"
    /\ \/ /\ IsSome(dict_dir) /\ IsSome(corpus)
          /\ out_files' = save_word_list(out_files, word_files[build_i][2],
                generate_word_list(Unwrap(dict_dir)[word_files[build_i][1]],
                                   Unwrap(corpus)))
          /\ done' = Append(done, word_files[build_i][2])
          /\ build_i' = build_i + 1
          /\ pc' = IF build_i = Len(word_files) THEN "load" ELSE "build"
          /\ UNCHANGED failure
       \/ /\ IsSome(dict_dir) /\ IsSome(corpus)
          /\ Panic
          /\ done' = Append(done, "build_failed")
          /\ failure' = Append(failure, "disk_create")
          /\ UNCHANGED << out_files, build_i >>
       \/ /\ ~(IsSome(dict_dir) /\ IsSome(corpus))
          /\ Panic
          /\ done' = Append(done, "build_failed")
          /\ UNCHANGED << out_files, build_i, failure >>
    /\ UNCHANGED << dict_dir, archive, corpus, response, word_lists, cached,
                    ArgVars, GenVars, PureVars >>

\* load_all_word_lists; File::open of a missing file panics
LoadAllWordLists ==
    /\ pc = "load"
    /\ done' = Append(done, "load")
    /\ IF \A n \in OutNames : IsSome(out_files[n])
       THEN /\ word_lists' = [ adjectives |-> load_word_list(Unwrap(out_files["adjectives.txt"])),
                               nouns |-> load_word_list(Unwrap(out_files["nouns.txt"])),
                               verbs |-> load_word_list(Unwrap(out_files["verbs.txt"])),
                               adverbs |-> load_word_list(Unwrap(out_files["adverbs.txt"])) ]
            /\ pc' = "generate"
       ELSE /\ Panic
            /\ UNCHANGED word_lists
    /\ UNCHANGED << dict_dir, archive, corpus, out_files, response, build_i,
                    cached, failure, ArgVars, GenVars, PureVars >>


-----------------------------------------------------------------------------
(* main's loop and generate_password *)

\* line 319, the call: generate_password returns the passphrase
GeneratePassword ==
    /\ pc = "generate"
    /\ printed < num_passwords
    /\ \E number \in random_range :
       \E a \in pick_random_above_frequency(word_lists.adjectives, min_frequency) :
       \E n \in pick_random_above_frequency(word_lists.nouns, min_frequency) :
       \E v \in pick_random_above_frequency(word_lists.verbs, min_frequency) :
       \E d \in pick_random_above_frequency(word_lists.adverbs, min_frequency) :
          /\ num' = number
          /\ adj' = a
          /\ noun_n' = n
          /\ noun' = plural_if_many(n, number)
          /\ verb' = v
          /\ adv' = d
          /\ password' = format_password(number, a, plural_if_many(n, number), v, d)
    /\ pc' = "print"
    /\ done' = Append(done, "generate")
    /\ UNCHANGED << dict_dir, archive, corpus, out_files, response, build_i,
                    word_lists, printed, cached, failure, ArgVars, PureVars >>

\* line 319, println!: the passphrase is printed and dropped with the locals
\* of the call
PrintPassword ==
    /\ pc = "print"
    /\ printed' = printed + 1
    /\ num' = 0
    /\ adj' = << >>
    /\ noun_n' = << >>
    /\ noun' = << >>
    /\ verb' = << >>
    /\ adv' = << >>
    /\ password' = << >>
    /\ pc' = "generate"
    /\ done' = Append(done, "print")
    /\ UNCHANGED << dict_dir, archive, corpus, out_files, response, build_i,
                    word_lists, cached, failure, ArgVars, PureVars >>

\* main returns
Exit ==
    /\ pc = "generate"
    /\ printed = num_passwords
    /\ pc' = "exit"
    /\ UNCHANGED << dict_dir, archive, corpus, out_files, response, build_i,
                    word_lists, cached, done, failure, ArgVars, GenVars, PureVars >>

-----------------------------------------------------------------------------
(* The two file-to-list functions, called on their own *)

ApplyGenerateWordList ==
    /\ pc = "call_generate_word_list"
    /\ word_list' = generate_word_list(dictionary, master_word_list)
    /\ pc' = "returned"
    /\ UNCHANGED << dict_dir, archive, corpus, out_files, response, build_i,
                    word_lists, cached, done, failure, ArgVars, GenVars,
                    dictionary, master_word_list, list_file, entries >>

ApplyLoadWordList ==
    /\ pc = "call_load_word_list"
    /\ entries' = load_word_list(list_file)
    /\ pc' = "returned"
    /\ UNCHANGED << dict_dir, archive, corpus, out_files, response, build_i,
                    word_lists, cached, done, failure, ArgVars, GenVars,
                    dictionary, master_word_list, word_list, list_file >>

-----------------------------------------------------------------------------
(* Specifications *)

\* bounds
MaxCount == 1
MaxDictLines == 2
MaxCorpusLines == 3
MaxFileLines == 3

SeqsUpTo(S, n) == UNION { [1..k -> S] : k \in 0..n }

DefaultMinFrequency == << "1", "0", "0", "0", "0" >>

NoLists == [ adjectives |-> << >>, nouns |-> << >>, verbs |-> << >>, adverbs |-> << >> ]

InitLocals ==
    /\ response = None
    /\ build_i = 0
    /\ word_lists = NoLists
    /\ num = 0
    /\ adj = << >>
    /\ noun_n = << >>
    /\ noun = << >>
    /\ verb = << >>
    /\ adv = << >>
    /\ password = << >>
    /\ printed = 0
    /\ cached = FALSE
    /\ done = << >>
    /\ failure = << >>

InitPure ==
    /\ dictionary = << >>
    /\ master_word_list = << >>
    /\ word_list = << >>
    /\ list_file = << >>
    /\ entries = << >>

\* load_or_generate_word_lists, from its call to its return, on every storage
\* directory an earlier run or the user may have left
Init ==
    /\ pc = "main"
    /\ force_download \in BOOLEAN
    /\ min_frequency = DefaultMinFrequency
    /\ num_passwords = 1
    /\ dict_dir \in { None, Some(OldDict) }
    /\ archive = None
    /\ corpus \in { None, Some(OldCorpus) }
    /\ out_files \in [ OutNames -> { None } \cup { Some(f) : f \in OldOutPool } ]
    /\ fs0 = Storage
    /\ InitLocals
    /\ InitPure

Next ==
    \/ WordListsCheck
    \/ GetWordnet
    \/ WriteArchive
    \/ ExtractWordnet
    \/ RemoveArchive
    \/ GetCorpus
    \/ WriteCorpus
    \/ BuildWordList
    \/ LoadAllWordLists

Spec == Init /\ [][Next]_vars

\* load and generate: the four derived files are there, main loads them and
\* prints num_passwords passphrases
GenAdjectives == { << >>, << << "b", "i", "g", " ", "2", "0", "0", "0", "0" >>,
       << "a", "-", "o", "k", " ", "3", "0", "0", "0", "0" >> >> }
GenNouns == { << >>, << << "c", "a", "t", " ", "5", "0", "0", "0", "0" >>,
       << "d", "o", "g", " ", "5" >> >>, << << "b", "o", "x", " ", "6", "0", "0", "0", "0" >>,
       << "r", "i", "c", "e", " ", "7", "0", "0", "0", "0" >>,
       << "?", "?", "?" >> >> }
GenVerbs == { << << "r", "u", "n", " ", "3", "0", "0", "0", "0" >> >>, << << "r", "u", "n", " ", "5" >>,
       << "g", "o", " ", "+", "1", "0", "0", "0", "1" >>,
       << "b", "e" >> >> }
GenAdverbs == { << << "f", "a", "s", "t", " ", "4", "0", "0", "0", "0" >> >>, << << "f", "a", "s", "t", " ", "0", "0", "0", "0", "5" >>,
       << "w", "e", "l", "l", " ", "4", "2", "9", "4", "9", "6", "7", "2", "9", "5" >>,
       << "f", "a", "r", " ", "4", "2", "9", "4", "9", "6", "7", "2", "9", "6" >> >> }
GenMinFrequency == { << "5" >>, << "1", "0", "0", "0", "0" >>, << "4", "2", "9", "4", "9", "6", "7", "2", "9", "5" >> }

InitGen ==
    /\ pc = "load"
    /\ force_download = FALSE
    /\ min_frequency \in GenMinFrequency
    /\ num_passwords \in 0..MaxCount
    /\ dict_dir = Some(NewDict)
    /\ archive = None
    /\ corpus = Some(NewCorpus)
    /\ out_files \in { [ n \in OutNames |->
                          CASE n = "adjectives.txt" -> Some(a)
                            [] n = "nouns.txt" -> Some(b)
                            [] n = "verbs.txt" -> Some(c)
                            [] n = "adverbs.txt" -> Some(d) ] :
                        a \in GenAdjectives, b \in GenNouns,
                        c \in GenVerbs, d \in GenAdverbs }
    /\ fs0 = Storage
    /\ InitLocals
    /\ InitPure

NextGen ==
    \/ LoadAllWordLists
    \/ GeneratePassword
    \/ PrintPassword
    \/ Exit

SpecGen == InitGen /\ [][NextGen]_vars

\* generate_word_list on every dictionary index and corpus made of these lines
DictLinePool ==
    { << "c", "a", "t", " ", "n", " ", "1" >>, << "d", "o", "g", " ", "n", " ", "1" >>, << " ", " ", "z", "z", "z" >>, << "'", "h", "o", "o", "d", " ", "n", " ", "1" >> }
CorpusLinePool ==
    { << "c", "a", "t", " ", "5", "0", "0", "0", "0" >>, << "d", "o", "g", " ", "5" >>, << "z", "z", "z", " ", "9", "9", "9", "9", "9" >>,
      << " ", " ", "c", "a", "t", " ", "3" >>, << "'", "h", "o", "o", "d", " ", "4" >>, << >> }

InitStorageIdle ==
    /\ force_download = FALSE
    /\ min_frequency = DefaultMinFrequency
    /\ num_passwords = 1
    /\ dict_dir = None
    /\ archive = None
    /\ corpus = None
    /\ out_files = [ n \in OutNames |-> None ]
    /\ fs0 = Storage
    /\ InitLocals

InitBuild ==
    /\ pc = "call_generate_word_list"
    /\ dictionary \in SeqsUpTo(DictLinePool, MaxDictLines)
    /\ master_word_list \in SeqsUpTo(CorpusLinePool, MaxCorpusLines)
    /\ word_list = << >>
    /\ list_file = << >>
    /\ entries = << >>
    /\ InitStorageIdle

NextBuild == ApplyGenerateWordList

SpecBuild == InitBuild /\ [][NextBuild]_vars

\* load_word_list on every derived file made of these lines
FileLinePool ==
    { << "c", "a", "t", " ", "5", "0", "0", "0", "0" >>, << "d", "o", "g", " ", "5" >>, << "c", "a", "t" >>, << >>, << " ", " ", " " >>, << "c", "a", "t", " ", "x", "5" >>,
      << " ", "a", "-", "o", "k", "\t", "0", "0", "7", " ", "x" >>, << "g", "o", " ", "+", "1", "2" >>, << "b", "e", " ", "-", "1" >>, << "u", "p", " ", "4", "2", "9", "4", "9", "6", "7", "2", "9", "5" >>,
      << "f", "a", "r", " ", "4", "2", "9", "4", "9", "6", "7", "2", "9", "6" >>, << "i", "t", " ", "+" >> }

InitLoad ==
    /\ pc = "call_load_word_list"
    /\ list_file \in SeqsUpTo(FileLinePool, MaxFileLines)
    /\ entries = << >>
    /\ dictionary = << >>
    /\ master_word_list = << >>
    /\ word_list = << >>
    /\ InitStorageIdle

NextLoad == ApplyLoadWordList

SpecLoad == InitLoad /\ [][NextLoad]_vars


-----------------------------------------------------------------------------
(* Vocabulary of the properties *)

Range(s) == { s[i] : i \in DOMAIN s }

AllFourPresent(files) ==
    { "adjectives.txt", "nouns.txt", "verbs.txt", "adverbs.txt" }
        \subseteq { n \in DOMAIN files : files[n] # None }

\* the pipeline was entered: its first step is due or was taken
PipelineEntered == pc = "get_wordnet" \/ "get_wordnet" \in Range(done)

Returned == pc = "generate"

\* the maximal runs of non-whitespace characters of a line, as <<first, last>>
TokenSpans(line) ==
    { sp \in (DOMAIN line) \X (DOMAIN line) :
        /\ sp[1] <= sp[2]
        /\ \A k \in sp[1]..sp[2] : line[k] \notin Whitespace
        /\ sp[1] = 1 \/ line[sp[1] - 1] \in Whitespace
        /\ sp[2] = Len(line) \/ line[sp[2] + 1] \in Whitespace }

\* the k-th token of a line that has one
Token(line, k) ==
    LET sp == CHOOSE s \in TokenSpans(line) :
                 Cardinality({ t \in TokenSpans(line) : t[1] < s[1] }) = k - 1
    IN  SubSeq(line, sp[1], sp[2])

\* the k-th smallest element of a set of numbers
Kth(S, k) == CHOOSE j \in S : Cardinality({ m \in S : m <= j }) = k

\* the text of an unsigned 32-bit integer, as Rust reads one
IsU32Text(tok) ==
    LET ds == IF tok[1] = "+" THEN SubSeq(tok, 2, Len(tok)) ELSE tok
    IN  /\ ds # << >>
        /\ \A i \in DOMAIN ds : ds[i] \in Digits
        /\ ~U32Less(U32Max, StripZeros(ds))

U32Value(tok) ==
    StripZeros(IF tok[1] = "+" THEN SubSeq(tok, 2, Len(tok)) ELSE tok)

\* the number of fields str::split('-') gives
FieldCount(s) == Cardinality({ i \in DOMAIN s : s[i] = "-" }) + 1

Hyphens(s) == Cardinality({ i \in DOMAIN s : s[i] = "-" })

\* generate_password has returned and its value is in hand
Generated == pc = "print"

-----------------------------------------------------------------------------
(* C1 *)

\* C1: the cache-existence check returns true if and only if all four derived
\* files are present in the storage directory, whatever they hold (an empty or
\* malformed file counts as present).
C1_ExistsIffAllFour ==
    pc # "main" => (cached <=> AllFourPresent(fs0.out_files))

C1_Witness ==
    /\ pc # "main"
    /\ cached
    /\ fs0.out_files["adjectives.txt"] = Some(<< >>)
    /\ fs0.out_files["nouns.txt"] = Some(<< << "?", "?", "?" >>,
       << "c", "a", "t" >> >>)

-----------------------------------------------------------------------------
(* C2 *)

\* C2: the fetch+build pipeline runs if and only if the cache-existence check
\* is false or the redownload flag is set; with all four files present and the
\* flag unset nothing is downloaded and the storage directory is untouched
\* when the lists are loaded; with the flag set all four derived files are
\* rewritten although they existed.
C2_PipelineGate ==
    /\ pc # "main" =>
         (PipelineEntered <=> (~AllFourPresent(fs0.out_files) \/ force_download))
    /\ (pc \in { "load", "generate" } /\ AllFourPresent(fs0.out_files)
            /\ ~force_download) =>
         /\ Storage = fs0
         /\ response = None
         /\ done \in { << "check" >>, << "check", "load" >> }
    /\ (pc \in { "load", "generate" } /\ force_download) =>
         \A i \in DOMAIN word_files :
            /\ word_files[i][2] \in Range(done)
            /\ out_files[word_files[i][2]] =
                 Some(generate_word_list(Unwrap(dict_dir)[word_files[i][1]],
                                         Unwrap(corpus)))

C2_Witness ==
    /\ Returned
    /\ force_download
    /\ AllFourPresent(fs0.out_files)
    /\ \A n \in OutNames : out_files[n] # fs0.out_files[n]

-----------------------------------------------------------------------------
(* C3 *)

\* C3 as stated: with dict/ present and no force flag the fetcher is a no-op:
\* the archive is not downloaded, written, extracted or deleted, even when the
\* pipeline runs because a derived list is missing.
C3_FetcherNoOpWhenDictPresent ==
    (IsSome(fs0.dict_dir) /\ ~force_download) =>
        /\ Range(done) \cap { "get_wordnet", "write_archive", "extract",
                              "remove_archive" } = { }
        /\ archive = None
        /\ dict_dir = fs0.dict_dir

\* C3 amended: the fetcher has no presence check of its own.  Whenever the
\* pipeline runs, also with dict/ present and the flag unset, the archive is
\* downloaded, written, handed to tar and deleted; when tar succeeds dict/ is
\* replaced by the downloaded dictionary.
C3_FetcherAlwaysRuns ==
    /\ (pc \notin { "main", "get_wordnet" } /\ ~cached) =>
         Len(done) >= 2 /\ done[2] = "get_wordnet"
    /\ pc = "get_corpus" =>
         /\ done = << "check", "get_wordnet", "write_archive", "extract",
                      "remove_archive" >>
         /\ response = Some(NewDict)
         /\ archive = None
         /\ "tar_exit" \notin Range(failure) => dict_dir = Some(NewDict)

C3_Witness ==
    /\ pc = "get_corpus"
    /\ IsSome(fs0.dict_dir)
    /\ ~force_download
    /\ dict_dir = Some(NewDict)
    /\ dict_dir # fs0.dict_dir

-----------------------------------------------------------------------------
(* C4 *)

\* C4 as stated: run without a forced rebuild, the builder leaves the output
\* files that are already present unchanged and writes only the missing ones.
C4_BuilderSkipsExisting ==
    (~force_download /\ pc \in { "build", "load", "generate" }) =>
        \A n \in OutNames :
            IsSome(fs0.out_files[n]) => out_files[n] = fs0.out_files[n]

\* C4 amended: generate_word_lists rewrites each of the four output files in
\* turn, present or not: a file whose turn has come holds the list built from
\* its index file and the corpus, a file whose turn has not come is as the run
\* found it.
C4_BuilderRewritesAll ==
    /\ pc = "build" =>
         \A i \in DOMAIN word_files :
            /\ i < build_i =>
                 out_files[word_files[i][2]] =
                   Some(generate_word_list(Unwrap(dict_dir)[word_files[i][1]],
                                           Unwrap(corpus)))
            /\ i >= build_i =>
                 out_files[word_files[i][2]] = fs0.out_files[word_files[i][2]]
    /\ (pc \in { "load", "generate" } /\ PipelineEntered) =>
         \A i \in DOMAIN word_files :
            out_files[word_files[i][2]] =
              Some(generate_word_list(Unwrap(dict_dir)[word_files[i][1]],
                                      Unwrap(corpus)))

C4_Witness ==
    /\ pc = "load"
    /\ ~force_download
    /\ IsSome(fs0.out_files["nouns.txt"])
    /\ fs0.out_files["adjectives.txt"] = None
    /\ out_files["nouns.txt"] = Some(<< << "c", "a", "t", " ", "5", "0", "0", "0", "0" >>,
       << "d", "o", "g", " ", "5" >> >>)
    /\ out_files["nouns.txt"] # fs0.out_files["nouns.txt"]

-----------------------------------------------------------------------------
(* C6 *)

\* C6: a network failure, a disk-write failure or a failure of the extraction
\* utility (tar running and exiting unsuccessfully included) in the fetch step
\* halts the program at that step: no later step runs.
C6_FetchFailureHalts ==
    failure # << >> => pc = "panicked"


-----------------------------------------------------------------------------
(* C5 *)

\* the known words of a dictionary index: the first token of each line whose
\* first token starts with an ASCII letter
KnownWords(dict) ==
    { Token(dict[i], 1) : i \in
        { j \in DOMAIN dict : /\ TokenSpans(dict[j]) # { }
                               /\ Token(dict[j], 1)[1] \in AsciiAlphabetic } }

\* the corpus lines, by position, whose first token is a known word
KeptLines(dict, master) ==
    LET known == KnownWords(dict)
    IN  { j \in DOMAIN master : /\ TokenSpans(master[j]) # { }
                                 /\ Token(master[j], 1) \in known }

\* C5: generate_word_list returns exactly the corpus lines whose first token is
\* the first token of a dictionary line and starts with an ASCII letter: whole
\* lines, none omitted, in the corpus's order.
C5_FrequencyFilter ==
    pc = "returned" =>
        LET kept == KeptLines(dictionary, master_word_list)
        IN  /\ Len(word_list) = Cardinality(kept)
            /\ \A k \in DOMAIN word_list :
                 word_list[k] = master_word_list[Kth(kept, k)]

C5_Witness ==
    /\ pc = "returned"
    /\ dictionary = << << "c", "a", "t", " ", "n", " ", "1" >>,
       << "d", "o", "g", " ", "n", " ", "1" >> >>
    /\ master_word_list = << << "c", "a", "t", " ", "5", "0", "0", "0", "0" >>,
       << "d", "o", "g", " ", "5" >>,
       << "z", "z", "z", " ", "9", "9", "9", "9", "9" >> >>
    /\ word_list = << << "c", "a", "t", " ", "5", "0", "0", "0", "0" >>,
       << "d", "o", "g", " ", "5" >> >>

-----------------------------------------------------------------------------
(* C10 *)

\* a line that gives an entry: a word and, after it, the text of a u32
LineParses(line) ==
    /\ Cardinality(TokenSpans(line)) >= 2
    /\ IsU32Text(Token(line, 2))

ParsingLines(file) == { i \in DOMAIN file : LineParses(file[i]) }

\* C10: load_word_list gives, in file order, one WordEntry (first token, value
\* of the second) for each line that parses; a blank line, a line with only a
\* word and a line whose second token is no u32 give no entry and leave the
\* entries of the other lines as they are.
C10_LoadSkipsBadLines ==
    pc = "returned" =>
        LET good == ParsingLines(list_file)
        IN  /\ Len(entries) = Cardinality(good)
            /\ \A k \in DOMAIN entries :
                 /\ entries[k].word = Token(list_file[Kth(good, k)], 1)
                 /\ entries[k].frequency = U32Value(Token(list_file[Kth(good, k)], 2))

C10_Witness ==
    /\ pc = "returned"
    /\ list_file = << << "c", "a", "t" >>, << "d", "o", "g", " ", "5" >>, << "c", "a", "t", " ", "x", "5" >> >>
    /\ entries = << [ word |-> << "d", "o", "g" >>, frequency |-> << "5" >> ] >>

-----------------------------------------------------------------------------
(* C7, C8, C9 *)

\* what generate_password may pick from a list: the word of an entry whose
\* frequency is above the threshold, and "" only when there is none
Chosen(w, list) ==
    LET above == { i \in DOMAIN list : U32Less(min_frequency, list[i].frequency) }
    IN  IF above = { }
        THEN w = << >>
        ELSE w # << >> /\ \E i \in above : w = list[i].word

Dash == << "-" >>

C8_PluralIffMany ==
    Generated =>
        /\ (num > 1 /\ noun_n # << >>) => noun = to_plural(noun_n)
        /\ (num = 1 \/ noun_n = << >>) => noun = noun_n
        /\ password = Decimal(num) \o Dash \o adj \o Dash
                        \o (IF num > 1 /\ noun_n # << >>
                            THEN to_plural(noun_n) ELSE noun_n)
                        \o Dash \o verb \o Dash \o adv
        /\ adj \in { << >> } \cup { word_lists.adjectives[i].word : i \in DOMAIN word_lists.adjectives }
        /\ verb \in { << >> } \cup { word_lists.verbs[i].word : i \in DOMAIN word_lists.verbs }
        /\ adv \in { << >> } \cup { word_lists.adverbs[i].word : i \in DOMAIN word_lists.adverbs }

C8_Witness ==
    /\ Generated
    /\ num = 2
    /\ noun_n = << "b", "o", "x" >>
    /\ noun = << "b", "o", "x", "e", "s" >>
    /\ password = << "2", "-", "b", "i", "g", "-", "b", "o", "x", "e", "s", "-", "r", "u", "n", "-", "f", "a", "s", "t" >>

====
